---- MODULE Spec2Model ----
(***************************************************************************)
(* Model of viewflow/flow/start.py: the Start flow node (wiring, has_perm, *)
(* activate_next), the flow_start_view decorator, StartViewActivation and  *)
(* the StartView request handling.                                         *)
(***************************************************************************)
EXTENDS Naturals, Sequences, FiniteSets, TLC

VARIABLES
    _owner,             \* Start._owner            (start.py:148, 175, 177)
    _owner_permission,  \* Start._owner_permission (start.py:149, 188)
    _assign_view,       \* Start._assign_view      (start.py:189)
    _activate_next,     \* Start._activate_next    (start.py:147, 163)
    activation_cls,     \* Start.activation_cls    (start.py:128, 143, 145)
    view_kind,          \* what the decorated callable is bound to (start.py:41-52)
    acts,               \* the activation objects: flow_task, task, management_form
    req,                \* the requests in flight: inputs, position, outcome, trace
    touched,            \* per activation object, the requests that used it
    calls,              \* the wiring / prepare calls made so far, in order
    last                \* what the last direct call returned or did

vars == <<_owner, _owner_permission, _assign_view, _activate_next, activation_cls,
          view_kind, acts, req, touched, calls, last>>

nodeVars == <<_owner, _owner_permission, _assign_view, _activate_next, activation_cls>>

-----------------------------------------------------------------------------
(* Bounds *)

MaxEdges == 3
MaxPrepareCalls == 3
NReq == 2

(* Values of the environment: principals, their grants, the principal store *)

None == [kind |-> "none"]

Principals == {"alice", "bob"}

PermissionNames == {"app.can_start"}

\* the grants answered by user.has_perm(name)
Grants(user) == IF user = "alice" THEN {"app.can_start"} ELSE {}

\* lookup kwargs are sets of criteria; {} is the empty dict
Satisfies(user, criterion) ==
    CASE criterion = "username=alice" -> user = "alice"
      [] criterion = "username=bob"   -> user = "bob"
      [] criterion = "is_active=True" -> TRUE
      [] OTHER                        -> FALSE

LookupChoices == { {}, {"username=alice"}, {"username=bob"},
                   {"is_active=True"}, {"username=ghost"} }

Lookup(crit) == [kind |-> "lookup", crit |-> crit]

\* a predicate User -> bool is known by the principals it accepts
Predicate(accepts) == [kind |-> "pred", accepts |-> accepts]

Predicates == { Predicate(s) : s \in SUBSET Principals }

Name(n) == [kind |-> "name", name |-> n]

Nodes == {"n1", "n2", "n3"}

Requests == 1..NReq

\* the activation objects: the memoized view instance, a stand-alone activation,
\* and the one constructed for each call through the decorator
ActIds == {"view", "a1"} \cup {ToString(r) : r \in Requests}

-----------------------------------------------------------------------------
(* Python truthiness and callable() of the values above *)

Truthy(v) ==
    CASE v.kind = "none"   -> FALSE
      [] v.kind = "pred"   -> TRUE
      [] v.kind = "lookup" -> v.crit # {}
      [] v.kind = "name"   -> v.name # ""
      [] OTHER             -> TRUE

Callable(v) == v.kind = "pred"

-----------------------------------------------------------------------------
(* Start: wiring *)

\* Start.__init__ : no edges, no owner, no permission
StartInit ==
    /\ _activate_next = <<>>
    /\ _owner = None
    /\ _owner_permission = None
    /\ _assign_view = None

PrependNode(list, node) == <<node>> \o list

\* Start.Activate: self._activate_next.append(node)
AppendNode(list, node) == Append(list, node)

\* Start.Available: owner if truthy, else the lookup kwargs
AvailableOwner(owner, owner_kwargs) ==
    IF Truthy(owner) THEN owner ELSE Lookup(owner_kwargs)

Edge(src, dst, edge_class) == [src |-> src, dst |-> dst, edge_class |-> edge_class]

\* Start._outgoing: one 'next' edge per registered node, in list order
Outgoing(list) == [i \in 1..Len(list) |-> Edge("start", list[i], "next")]

\* Start.activate_next: the dst.activate(prev_activation=...) calls it makes, in order
ActivateNext(list, self_activation) ==
    [i \in 1..Len(list) |->
        [dst |-> Outgoing(list)[i].dst, prev_activation |-> self_activation]]

-----------------------------------------------------------------------------
(* Start.has_perm *)

\* get_user_model()._default_manager.get(**criteria)
StoreGet(crit) ==
    LET found == {u \in Principals : \A c \in crit : Satisfies(u, c)}
    IN  IF found = {} THEN [raised |-> "DoesNotExist", user |-> "nobody"]
        ELSE IF Cardinality(found) > 1
             THEN [raised |-> "MultipleObjectsReturned", user |-> "nobody"]
             ELSE [raised |-> "no", user |-> CHOOSE u \in found : TRUE]

\* user.has_perm(perm): a name is looked up in the grants, a callable is no grant
UserHasPerm(user, perm) == perm.kind = "name" /\ perm.name \in Grants(user)

Bool(b) == IF b THEN "True" ELSE "False"

\* has_perm, owner branch (start.py:207-210)
OwnerBranch(owner, user) ==
    IF Callable(owner) /\ user \in owner.accepts
    THEN [result |-> "True", trace |-> <<"owner_pred">>]
    ELSE IF Callable(owner)
         \* get(**self._owner) with a function: ** needs a mapping
         THEN [result |-> "TypeError", trace |-> <<"owner_pred">>]
         ELSE LET got == StoreGet(owner.crit)
              IN  [result |-> IF got.raised # "no" THEN got.raised
                              ELSE Bool(got.user = user),
                   trace  |-> <<"store_get">>]

\* has_perm, permission branch (start.py:213-215)
PermissionBranch(permission, user) ==
    IF Callable(permission) /\ user \in permission.accepts
    THEN [result |-> "True", trace |-> <<"perm_pred">>]
    ELSE [result |-> Bool(UserHasPerm(user, permission)),
          trace  |-> (IF Callable(permission) THEN <<"perm_pred">> ELSE <<>>)
                     \o <<"user_has_perm">>]

HasPermPermissionFirst(owner, permission, user) ==
    IF Truthy(permission) THEN PermissionBranch(permission, user)
    ELSE IF Truthy(owner) THEN OwnerBranch(owner, user)
    ELSE [result |-> "True", trace |-> <<>>]

\* Start.has_perm: the result (True, False or the exception raised) and the
\* checks evaluated on the way
HasPerm(owner, permission, user) ==
    IF Truthy(owner) THEN OwnerBranch(owner, user)
    ELSE IF Truthy(permission) THEN PermissionBranch(permission, user)
    ELSE [result |-> "True", trace |-> <<>>]

-----------------------------------------------------------------------------
(* StartViewActivation *)

\* the data handed to prepare: None, an empty (falsy) submission, or a submission
DataChoices == {"None", "", "ok1", "ok2", "bad"}

DataTruthy(data) == data \notin {"None", ""}

\* the submissions the management form accepts
ValidData == {"ok1", "ok2"}

\* the task record an initialized activation holds (not persisted)
NewTask(origin) == [kind |-> "task", origin |-> origin, data |-> "None", committed |-> FALSE]

\* StartViewActivation.__init__: no management form yet, optional form class
Construct(management_form_cls) ==
    [kind |-> "activation", flow_task |-> "None", task |-> None,
     management_form |-> None, management_form_cls |-> management_form_cls,
     status |-> "new"]

\* StartActivation.initialize(flow_task): binds the node and a fresh task record
Initialize(act, flow_task, origin) ==
    [act EXCEPT !.flow_task = flow_task, !.task = NewTask(origin), !.status = "initialized"]

\* StartActivation.prepare(): the activation becomes prepared
SuperPrepare(act) == [act EXCEPT !.status = "prepared"]

\* StartViewActivation.get_management_form_cls: own class, else the flow's
GetManagementFormCls(act) ==
    IF act.management_form_cls # "None" THEN act.management_form_cls
    ELSE "flow_cls.management_form_cls"

\* management_form_cls(data=data, instance=self.task)
ManagementForm(cls, data, instance) ==
    [kind |-> "form", cls |-> cls, data |-> data, instance |-> instance]

\* management_form.is_valid()
IsValid(form) == form.data \in ValidData

\* management_form.errors
FormErrors(form) == <<"errors", form.data>>

\* management_form.save(commit=...): the record built from the instance and the data
FormSave(form, commit) == [form.instance EXCEPT !.data = form.data, !.committed = commit]

PersistEvents(record) == IF record.committed THEN <<"task.save">> ELSE <<>>

PrepareSaveBeforeValidate(act, data) ==
    LET a1   == SuperPrepare(act)
        form == ManagementForm(GetManagementFormCls(a1), data, a1.task)
        a2   == [a1 EXCEPT !.management_form = form]
        a3   == [a2 EXCEPT !.task = FormSave(form, FALSE)]
    IN  IF DataTruthy(data)
        THEN IF ~IsValid(form)
             THEN [act |-> a3, raised |-> "FlowRuntimeError",
                   detail |-> FormErrors(form), events |-> <<>>]
             ELSE [act |-> a3, raised |-> "no", detail |-> <<>>, events |-> <<>>]
        ELSE [act |-> a2, raised |-> "no", detail |-> <<>>, events |-> <<>>]

PrepareCommits(act, data) ==
    LET a1   == SuperPrepare(act)
        form == ManagementForm(GetManagementFormCls(a1), data, a1.task)
        a2   == [a1 EXCEPT !.management_form = form]
    IN  IF DataTruthy(data)
        THEN IF ~IsValid(form)
             THEN [act |-> a2, raised |-> "FlowRuntimeError",
                   detail |-> FormErrors(form), events |-> <<>>]
             ELSE [act |-> [a2 EXCEPT !.task = FormSave(form, TRUE)], raised |-> "no",
                   detail |-> <<>>, events |-> PersistEvents(FormSave(form, TRUE))]
        ELSE [act |-> a2, raised |-> "no", detail |-> <<>>, events |-> <<>>]

PrepareSwallows(act, data) ==
    LET a1   == SuperPrepare(act)
        form == ManagementForm(GetManagementFormCls(a1), data, a1.task)
        a2   == [a1 EXCEPT !.management_form = form]
    IN  IF DataTruthy(data) /\ IsValid(form)
        THEN [act |-> [a2 EXCEPT !.task = FormSave(form, FALSE)], raised |-> "no",
              detail |-> <<>>, events |-> <<>>]
        ELSE [act |-> a2, raised |-> "no", detail |-> <<>>, events |-> <<>>]

\* StartViewActivation.prepare(data): the activation afterwards, the exception
\* raised (if any) with its detail, and the persistence calls made
Prepare(act, data) ==
    LET a1   == SuperPrepare(act)
        form == ManagementForm(GetManagementFormCls(a1), data, a1.task)
        a2   == [a1 EXCEPT !.management_form = form]
    IN  IF DataTruthy(data)
        THEN IF ~IsValid(form)
             THEN [act |-> a2, raised |-> "FlowRuntimeError",
                   detail |-> FormErrors(form), events |-> <<>>]
             ELSE [act |-> [a2 EXCEPT !.task = FormSave(form, FALSE)], raised |-> "no",
                   detail |-> <<>>,
                   events |-> PersistEvents(FormSave(form, FALSE))]
        ELSE [act |-> a2, raised |-> "no", detail |-> <<>>, events |-> <<>>]

-----------------------------------------------------------------------------
(* flow_start_view and StartView: request handling *)

Ev(ev, act, arg) == [ev |-> ev, act |-> act, arg |-> arg]

\* StartViewDecorator.__get__: the instance is the activation only when it
\* implements StartActivation
Get(kind) == IF kind = "activation_method" THEN "view" ELSE "None"

DecoratorAlwaysConstructs(activation, cls, fresh) ==
    [act |-> fresh, constructed |-> TRUE,
     events |-> <<Ev("construct", fresh, cls), Ev("initialize", fresh, "start"),
                  Ev("call", fresh, "func(request, activation)")>>]

\* StartViewDecorator.__call__: which activation is initialized, whether it was
\* constructed from flow_task.activation_cls, and what happens in order
DecoratorCall(activation, cls, fresh) ==
    LET warn == IF activation # "None" /\ cls # "None"
                THEN <<Ev("warn", activation, "RuntimeWarning")>> ELSE <<>>
    IN  IF activation # "None"
        THEN [act |-> activation, constructed |-> FALSE,
              events |-> warn \o <<Ev("initialize", activation, "start"),
                                   Ev("call", activation, "func(request)")>>]
        ELSE [act |-> fresh, constructed |-> TRUE,
              events |-> warn \o <<Ev("construct", fresh, cls),
                                   Ev("initialize", fresh, "start"),
                                   Ev("call", fresh, "func(request, activation)")>>]

\* request.POST or None
PostOrNone(method, post) == IF method = "POST" /\ post # "" THEN post ELSE "None"

DispatchNeverDenies(result) ==
    IF result \in {"True", "False"} THEN [pc |-> "prepare", outcome |-> ""]
    ELSE [pc |-> "end", outcome |-> result]

\* StartView.dispatch, lines 116-117: PermissionDenied unless has_perm; an
\* exception of has_perm propagates
DispatchAfterPerm(result) ==
    IF result = "True" THEN [pc |-> "prepare", outcome |-> ""]
    ELSE IF result = "False" THEN [pc |-> "end", outcome |-> "PermissionDenied"]
    ELSE [pc |-> "end", outcome |-> result]

DispatchRecovers(raised) ==
    IF raised = "no" THEN [pc |-> "super_dispatch", outcome |-> ""]
    ELSE [pc |-> "end", outcome |-> "render_errors"]

\* StartView.dispatch, lines 119-120: prepare is not guarded, its exception
\* leaves dispatch
DispatchAfterPrepare(raised) ==
    IF raised = "no" THEN [pc |-> "super_dispatch", outcome |-> ""]
    ELSE [pc |-> "end", outcome |-> raised]

\* UpdateView.dispatch: GET renders the form, POST validates the process form
SuperDispatchTo(method, form_ok) ==
    IF method = "GET" THEN [pc |-> "end", outcome |-> "render"]
    ELSE IF form_ok THEN [pc |-> "form_valid", outcome |-> ""]
    ELSE [pc |-> "end", outcome |-> "render_errors"]

\* StartActivation.done(process=...): persists, then flow_task.activate_next(self)
Done(act, aid, edges) ==
    [act    |-> [act EXCEPT !.status = "done", !.task.committed = TRUE],
     events |-> <<Ev("done", aid, "process.save, task.save")>>
                \o [i \in 1..Len(edges) |->
                       Ev("activate", ActivateNext(edges, aid)[i].prev_activation,
                          ActivateNext(edges, aid)[i].dst)]]

\* StartView.form_valid: UpdateView.form_valid saves the process form into
\* self.object, then self.done(process=self.object)
FormValid(act, aid, edges) ==
    [act    |-> Done(act, aid, edges).act,
     events |-> <<Ev("form.save", aid, "process")>> \o Done(act, aid, edges).events]

-----------------------------------------------------------------------------
(* The wiring specification: a Start node is built by chained calls and     *)
(* asked has_perm / activate_next.                                          *)

NoCall == [op |-> "none"]

Activate(node) ==
    /\ Len(_activate_next) < MaxEdges
    /\ _activate_next' = AppendNode(_activate_next, node)
    /\ calls' = Append(calls, node)
    /\ last' = NoCall
    /\ UNCHANGED <<_owner, _owner_permission, _assign_view, activation_cls,
                   view_kind, acts, req, touched>>

Available(owner, owner_kwargs) ==
    /\ _owner' = AvailableOwner(owner, owner_kwargs)
    /\ last' = NoCall
    /\ UNCHANGED <<_owner_permission, _assign_view, _activate_next, activation_cls,
                   view_kind, acts, req, touched, calls>>

Permission(permission, assign_view) ==
    /\ _owner_permission' = permission
    /\ _assign_view' = assign_view
    /\ last' = NoCall
    /\ UNCHANGED <<_owner, _activate_next, activation_cls,
                   view_kind, acts, req, touched, calls>>

CallHasPerm(user) ==
    /\ last' = [op |-> "has_perm", user |-> user,
                got |-> HasPerm(_owner, _owner_permission, user)]
    /\ UNCHANGED <<nodeVars, view_kind, acts, req, touched, calls>>

CallActivateNext(self_activation) ==
    /\ last' = [op |-> "activate_next", self_activation |-> self_activation,
                activated |-> ActivateNext(_activate_next, self_activation)]
    /\ UNCHANGED <<nodeVars, view_kind, acts, req, touched, calls>>

WiringInit ==
    /\ StartInit
    /\ activation_cls = "StartViewActivation"
    /\ view_kind = "function"
    /\ acts = [a \in ActIds |-> None]
    /\ req = <<>>
    /\ touched = [a \in ActIds |-> {}]
    /\ calls = <<>>
    /\ last = NoCall

WiringNext ==
    \/ \E node \in Nodes : Activate(node)
    \/ \E owner \in {None} \cup Predicates \cup {Lookup(c) : c \in LookupChoices \ {{}}},
          owner_kwargs \in LookupChoices : Available(owner, owner_kwargs)
    \/ \E permission \in {Name(n) : n \in PermissionNames} \cup Predicates,
          assign_view \in {None, Name("assign")} : Permission(permission, assign_view)
    \/ \E user \in Principals : CallHasPerm(user)
    \/ \E a \in ActIds : CallActivateNext(a)

SpecWiring == WiringInit /\ [][WiringNext]_vars

-----------------------------------------------------------------------------
(* Claims about the wiring specification *)

Range(seq) == {seq[i] : i \in DOMAIN seq}

\* C1: with a callable owner predicate, has_perm(p) is exactly predicate(p):
\* True when it accepts p, False (no error, no store lookup) when it rejects p.
C1_CallableOwnerDecides ==
    (last.op = "has_perm" /\ Callable(_owner))
        => /\ last.got.result = Bool(last.user \in _owner.accepts)
           /\ last.got.trace = <<"owner_pred">>

\* C2: with both an owner restriction and a permission restriction set,
\* has_perm runs the owner branch only: neither the permission predicate nor
\* the principal's own permission check is evaluated.
C2_OwnerTakesPrecedence ==
    (last.op = "has_perm" /\ Truthy(_owner) /\ Truthy(_owner_permission))
        => /\ last.got.trace # <<>>
           /\ Range(last.got.trace) \subseteq {"owner_pred", "store_get"}
           /\ last.got = OwnerBranch(_owner, last.user)

C2_Witness ==
    /\ last.op = "has_perm"
    /\ Truthy(_owner) /\ ~Callable(_owner)
    /\ Callable(_owner_permission)
    /\ last.user \in _owner_permission.accepts
    /\ last.got.result = "False"

\* C4: the outgoing edges are the Activate arguments in call order, duplicates
\* kept, and one activate_next call activates exactly those destinations in
\* that order, each with the current activation as predecessor.
C4_ActivateOrder ==
    /\ _activate_next = calls
    /\ [i \in DOMAIN Outgoing(_activate_next) |-> Outgoing(_activate_next)[i].dst] = calls
    /\ last.op = "activate_next"
         => /\ Len(last.activated) = Len(calls)
            /\ \A i \in DOMAIN calls :
                 /\ last.activated[i].dst = calls[i]
                 /\ last.activated[i].prev_activation = last.self_activation

C4_Witness ==
    /\ last.op = "activate_next"
    /\ calls = <<"n2", "n1", "n2">>
    /\ Len(last.activated) = 3

-----------------------------------------------------------------------------
(* The activation specification: one initialized StartViewActivation whose  *)
(* prepare is called directly, several times.                               *)

CallPrepare(data) ==
    /\ Len(calls) < MaxPrepareCalls
    /\ LET res == Prepare(acts["a1"], data)
       IN  /\ acts' = [acts EXCEPT !["a1"] = res.act]
           /\ last' = [op |-> "prepare", data |-> data, raised |-> res.raised,
                       detail |-> res.detail, events |-> res.events,
                       task_before |-> acts["a1"].task]
    /\ calls' = Append(calls, data)
    /\ UNCHANGED <<nodeVars, view_kind, req, touched>>

ActivationInit ==
    /\ StartInit
    /\ activation_cls = "StartViewActivation"
    /\ view_kind = "function"
    /\ \E cls \in {"None", "CustomManagementForm"} :
          acts = [a \in ActIds |->
                    IF a = "a1" THEN Initialize(Construct(cls), "start", "a1") ELSE None]
    /\ req = <<>>
    /\ touched = [a \in ActIds |-> {}]
    /\ calls = <<>>
    /\ last = NoCall

ActivationNext == \E data \in DataChoices : CallPrepare(data)

SpecActivation == ActivationInit /\ [][ActivationNext]_vars

\* C5: prepare(data=None) followed by prepare(data the management form rejects)
\* raises the runtime error with the validation errors, and the task record is
\* still the one held before the failing call (the original record when no
\* accepted submission came before), never one built from the rejected data.
C5_InvalidPrepareKeepsTask ==
    (last.op = "prepare" /\ DataTruthy(last.data) /\ last.data \notin ValidData)
        => /\ last.raised = "FlowRuntimeError"
           /\ last.detail = <<"errors", last.data>>
           /\ acts["a1"].task = last.task_before
           /\ acts["a1"].task.data # last.data
           /\ (\A i \in DOMAIN calls : calls[i] \notin ValidData)
                 => acts["a1"].task = NewTask("a1")

C5_Witness ==
    /\ calls = <<"None", "bad">>
    /\ last.op = "prepare"
    /\ last.raised = "FlowRuntimeError"
    /\ acts["a1"].task = NewTask("a1")
    /\ acts["a1"].management_form.data = "bad"

-----------------------------------------------------------------------------
(* The request specification: requests served through one wired Start node, *)
(* interleaved.                                                             *)

IdleRequest ==
    [pc |-> "idle", user |-> "", method |-> "", post |-> "", form_ok |-> FALSE,
     act |-> "None", outcome |-> "", log |-> <<>>, prepared_task |-> None]

\* GET, an empty POST, a POST the management form accepts (process form valid
\* or not), a POST the management form rejects
RequestChoices ==
    { [method |-> "GET",  post |-> "",    form_ok |-> TRUE],
      [method |-> "POST", post |-> "",    form_ok |-> TRUE],
      [method |-> "POST", post |-> "ok1", form_ok |-> TRUE],
      [method |-> "POST", post |-> "ok1", form_ok |-> FALSE],
      [method |-> "POST", post |-> "bad", form_ok |-> TRUE] }

Node(owner, permission, edges, kind) ==
    [owner |-> owner, permission |-> permission, edges |-> edges, kind |-> kind]

\* the wired nodes the requests are served through:
\*   Start(StartView).Permission('app.can_start').Activate(n1)
\*   Start(StartView).Available(pred).Permission('app.can_start').Activate(n2).Activate(n1)
\*   Start(StartView).Activate(n1)
\*   Start(func).Permission('app.can_start').Activate(n1)
\*   Start(view calling a decorated method of a plain object).Available(username='alice')...
NodeChoices ==
    { Node(None, Name("app.can_start"), <<"n1">>, "activation_method"),
      Node(Predicate({"alice"}), Name("app.can_start"), <<"n2", "n1">>, "activation_method"),
      Node(None, None, <<"n1">>, "activation_method"),
      Node(None, Name("app.can_start"), <<"n1">>, "function"),
      Node(Lookup({"username=alice"}), None, <<"n2", "n1">>, "method") }

\* the call of the decorated view: StartViewDecorator.__get__ and __call__
Enter(r, user, input) ==
    /\ req[r].pc = "idle"
    /\ LET d == DecoratorCall(Get(view_kind), activation_cls, ToString(r))
       IN  /\ acts' = [acts EXCEPT ![d.act] =
                          Initialize(IF d.constructed THEN Construct("None") ELSE acts[d.act],
                                     "start", ToString(r))]
           /\ touched' = [touched EXCEPT ![d.act] = @ \cup {r}]
           /\ req' = [req EXCEPT ![r] =
                         [IdleRequest EXCEPT
                            !.pc = IF view_kind = "activation_method" THEN "dispatch" ELSE "func",
                            !.user = user, !.method = input.method, !.post = input.post,
                            !.form_ok = input.form_ok, !.act = d.act, !.log = d.events]]
    /\ UNCHANGED <<nodeVars, view_kind, calls, last>>

Finish(r, to, events) ==
    [req[r] EXCEPT !.pc = to.pc, !.outcome = to.outcome, !.log = @ \o events]

\* a decorated plain view: it receives the activation, what it does is its own
RunFunc(r) ==
    /\ req[r].pc = "func"
    /\ req' = [req EXCEPT ![r] = Finish(r, [pc |-> "end", outcome |-> "returned"], <<>>)]
    /\ UNCHANGED <<nodeVars, view_kind, acts, touched, calls, last>>

\* StartView.dispatch: has_perm, then prepare(request.POST or None), then
\* super().dispatch(request), which renders (GET), re-renders (invalid process
\* form) or goes on to form_valid
Dispatch(r) ==
    /\ req[r].pc = "dispatch"
    /\ LET a         == req[r].act
           hp        == HasPerm(_owner, _owner_permission, req[r].user)
           afterPerm == DispatchAfterPerm(hp.result)
           res       == Prepare(acts[a], PostOrNone(req[r].method, req[r].post))
           afterPrep == DispatchAfterPrepare(res.raised)
           to        == SuperDispatchTo(req[r].method, req[r].form_ok)
           permEv    == <<Ev("has_perm", a, hp.result)>>
           prepEv    == <<Ev("prepare", a, IF res.raised = "no" THEN "ok" ELSE res.raised)>>
                        \o [i \in DOMAIN res.events |-> Ev(res.events[i], a, "task")]
       IN  IF afterPerm.pc = "end"
           THEN /\ req' = [req EXCEPT ![r] = Finish(r, afterPerm, permEv)]
                /\ acts' = acts
           ELSE IF afterPrep.pc = "end"
           THEN /\ req' = [req EXCEPT ![r] = Finish(r, afterPrep, permEv \o prepEv)]
                /\ acts' = [acts EXCEPT ![a] = res.act]
           ELSE /\ req' = [req EXCEPT ![r] =
                     [Finish(r, to, permEv \o prepEv \o
                                (IF to.pc = "end" THEN <<Ev(to.outcome, a, "")>> ELSE <<>>))
                      EXCEPT !.prepared_task = res.act.task]]
                /\ acts' = [acts EXCEPT ![a] = res.act]
    /\ touched' = [touched EXCEPT ![req[r].act] = @ \cup {r}]
    /\ UNCHANGED <<nodeVars, view_kind, calls, last>>

\* StartView.form_valid
FormValidStep(r) ==
    /\ req[r].pc = "form_valid"
    /\ LET a  == req[r].act
           fv == FormValid(acts[a], a, _activate_next)
       IN  /\ acts' = [acts EXCEPT ![a] = fv.act]
           /\ req' = [req EXCEPT ![r] =
                         Finish(r, [pc |-> "end", outcome |-> "redirect"], fv.events)]
           /\ touched' = [touched EXCEPT ![a] = @ \cup {r}]
    /\ UNCHANGED <<nodeVars, view_kind, calls, last>>

Init ==
    /\ \E n \in NodeChoices :
         /\ _owner = n.owner
         /\ _owner_permission = n.permission
         /\ _activate_next = n.edges
         /\ view_kind = n.kind
         \* Start.__init__: a view class that is a StartActivation is the activation_cls
         /\ activation_cls = IF n.kind = "activation_method" THEN "StartView"
                             ELSE "StartViewActivation"
    /\ _assign_view = None
    \* Start.view: the view class is instantiated once and kept
    /\ acts = [a \in ActIds |-> IF a = "view" /\ view_kind = "activation_method"
                                 THEN Construct("None") ELSE None]
    /\ req = [r \in Requests |-> IdleRequest]
    /\ touched = [a \in ActIds |-> {}]
    /\ calls = <<>>
    /\ last = NoCall

Next ==
    \/ \E r \in Requests, user \in Principals, input \in RequestChoices : Enter(r, user, input)
    \/ \E r \in Requests : RunFunc(r)
    \/ \E r \in Requests : Dispatch(r)
    \/ \E r \in Requests : FormValidStep(r)

Spec == Init /\ [][Next]_vars

-----------------------------------------------------------------------------
(* Claims about request handling *)

Has(log, ev) == \E i \in DOMAIN log : log[i].ev = ev

IsOneOf(e, names) == e.ev \in names

Evs(log, names) == SelectSeq(log, LAMBDA e : IsOneOf(e, names))

First(log, ev) == CHOOSE i \in DOMAIN log : log[i].ev = ev /\ \A j \in 1..(i - 1) : log[j].ev # ev

\* what changes an activation, a record or the store
MutatingEvents == {"initialize", "prepare", "form.save", "task.save", "done", "activate"}

PersistenceEvents == {"form.save", "task.save"}

FormProcessingEvents == {"prepare", "render", "render_errors", "form.save", "task.save", "done"}

Denied(r) == \E i \in DOMAIN req[r].log :
                req[r].log[i].ev = "has_perm" /\ req[r].log[i].arg = "False"

\* C3 as stated: a request refused by has_perm ends forbidden, never invokes
\* prepare, and has mutated no state at all (activation, task record,
\* management form) when the forbidden condition is raised.
C3_NothingMutatedBeforeForbidden ==
    \A r \in Requests :
        Denied(r) => /\ req[r].outcome = "PermissionDenied"
                     /\ ~Has(req[r].log, "prepare")
                     /\ Evs(req[r].log, MutatingEvents) = <<>>

\* C3 amended: has_perm precedes all form processing; a request refused by
\* has_perm ends forbidden without prepare or any form processing, and the only
\* mutation it has made is the decorator's initialize of the activation.
C3_PermCheckPrecedesFormProcessing ==
    \A r \in Requests :
        /\ Denied(r) =>
              /\ req[r].outcome = "PermissionDenied"
              /\ req[r].pc = "end"
              /\ ~Has(req[r].log, "prepare")
              /\ req[r].prepared_task = None
              /\ Evs(req[r].log, FormProcessingEvents) = <<>>
              /\ Evs(req[r].log, MutatingEvents) = <<Ev("initialize", req[r].act, "start")>>
              /\ req[r].log[Len(req[r].log)].ev = "has_perm"
        /\ \A i \in DOMAIN req[r].log :
              req[r].log[i].ev \in FormProcessingEvents
                 => \E j \in 1..(i - 1) : req[r].log[j] = Ev("has_perm", req[r].act, "True")

C3_Witness ==
    \E r \in Requests :
        /\ req[r].outcome = "PermissionDenied"
        /\ req[r].user = "bob"
        /\ req[r].post = "ok1"

\* C6 as stated: prepare(accepted data) replaces the task record by the
\* uncommitted record of the management form, and no persistence call occurs
\* between that prepare and done().
C6_NoPersistenceBeforeDone ==
    \A r \in Requests :
        LET log == req[r].log
        IN  /\ (Has(log, "prepare") /\ req[r].post \in ValidData /\ req[r].pc # "dispatch")
                   => (req[r].prepared_task.data = req[r].post
                       /\ ~req[r].prepared_task.committed)
            /\ \A i \in DOMAIN log, k \in DOMAIN log :
                  (i < k /\ log[i].ev = "prepare" /\ log[k].ev = "done")
                     => \A j \in (i + 1)..(k - 1) : log[j].ev \notin PersistenceEvents

\* C6 amended: prepare(accepted data) replaces the task record by the
\* uncommitted record of the management form and persists nothing itself; the
\* task record is not saved before done(), and the one persistence call between
\* prepare and done() is the save of the process form in form_valid.
C6_PrepareLeavesTaskUncommitted ==
    \A r \in Requests :
        LET log == req[r].log
        IN  /\ (Has(log, "prepare") /\ req[r].post \in ValidData /\ req[r].pc # "dispatch")
                   => /\ req[r].prepared_task.kind = "task"
                      /\ req[r].prepared_task.data = req[r].post
                      /\ ~req[r].prepared_task.committed
            /\ ~Has(log, "task.save")
            /\ \A i \in DOMAIN log, k \in DOMAIN log :
                  (i < k /\ log[i].ev = "prepare" /\ log[k].ev = "done")
                     => [j \in 1..(k - i - 1) |-> log[i + j]]
                           = <<Ev("form.save", req[r].act, "process")>>

C6_Witness ==
    \E r \in Requests :
        /\ req[r].outcome = "redirect"
        /\ req[r].post = "ok1"
        /\ req[r].prepared_task.data = "ok1"
        /\ Has(req[r].log, "done")

\* C7: whatever the interleaving, no activation object is used by more than one
\* request.
C7_ActivationPerRequest ==
    \A a \in ActIds : Cardinality(touched[a]) <= 1

ScenarioNode ==
    /\ _owner = None
    /\ _owner_permission = Name("app.can_start")
    /\ _activate_next = <<"n1">>
    /\ view_kind = "activation_method"

\* C8: for Start().Permission('app.can_start').Activate(n1): has_perm is False
\* without the permission and True with it; a valid POST of a permitted
\* principal is prepared, then done() is invoked, then n1 is activated exactly
\* once; done() is never invoked before prepare succeeded nor for an invalid
\* form.
C8_EndToEnd ==
    ScenarioNode =>
    \A r \in Requests :
        LET log == req[r].log
        IN  /\ \A i \in DOMAIN log :
                  log[i].ev = "has_perm"
                     => log[i].arg = Bool("app.can_start" \in Grants(req[r].user))
            /\ (req[r].pc = "end" /\ req[r].user = "alice" /\ req[r].method = "POST"
                   /\ req[r].post \in ValidData /\ req[r].form_ok)
                  => /\ req[r].outcome = "redirect"
                     /\ Evs(log, {"has_perm", "prepare", "done", "activate"})
                           = << Ev("has_perm", req[r].act, "True"),
                                Ev("prepare", req[r].act, "ok"),
                                Ev("done", req[r].act, "process.save, task.save"),
                                Ev("activate", req[r].act, "n1") >>
            /\ Has(log, "done")
                  => /\ Has(log, "prepare")
                     /\ First(log, "prepare") < First(log, "done")
                     /\ log[First(log, "prepare")].arg = "ok"
                     /\ req[r].form_ok
                     /\ req[r].post \in ValidData \cup {""}
                     /\ Len(Evs(log, {"done"})) = 1

C8_Witness ==
    /\ ScenarioNode
    /\ \E r \in Requests :
          /\ req[r].outcome = "redirect"
          /\ req[r].user = "alice"
          /\ req[r].post = "ok1"
          /\ Len(Evs(req[r].log, {"activate"})) = 1

Rejected(r) ==
    /\ req[r].pc = "end"
    /\ req[r].method = "POST"
    /\ DataTruthy(req[r].post)
    /\ req[r].post \notin ValidData
    /\ Has(req[r].log, "prepare")

\* C9 as stated: a submission the management form rejects is recovered in the
\* view: the request ends in a re-render with the errors, not in an unhandled
\* error, and done() is not invoked.
C9_ValidationFailureRerenders ==
    \A r \in Requests :
        Rejected(r) => /\ req[r].outcome = "render_errors"
                       /\ ~Has(req[r].log, "done")

\* C9 amended: a submission the management form rejects makes prepare raise the
\* runtime error, which StartView.dispatch does not catch: the request ends with
\* that error leaving dispatch, nothing is rendered and done() is not invoked.
C9_ValidationFailurePropagates ==
    \A r \in Requests :
        Rejected(r) => /\ req[r].outcome = "FlowRuntimeError"
                       /\ req[r].log[Len(req[r].log)]
                             = Ev("prepare", req[r].act, "FlowRuntimeError")
                       /\ ~Has(req[r].log, "render")
                       /\ ~Has(req[r].log, "render_errors")
                       /\ ~Has(req[r].log, "done")

C9_Witness ==
    \E r \in Requests :
        /\ Rejected(r)
        /\ req[r].outcome = "FlowRuntimeError"
        /\ req[r].user = "alice"

\* C10: every call through the decorator initializes exactly one activation
\* against the flow node before the wrapped callable runs: the bound instance
\* itself when it implements the activation interface (nothing constructed, a
\* warning when the node has an activation_cls), else a new activation
\* constructed from the node's activation_cls and passed to the callable.
C10_OneActivationInitialized ==
    \A r \in Requests :
        req[r].pc # "idle" =>
        LET log == req[r].log
            a   == req[r].act
            setup == Evs(log, {"warn", "construct", "initialize", "call"})
        IN  /\ Len(Evs(log, {"initialize"})) = 1
            /\ First(log, "initialize") < First(log, "call")
            /\ \A i \in 1..(First(log, "call") - 1) :
                  log[i].ev \in {"warn", "construct", "initialize"}
            /\ IF view_kind = "activation_method"
               THEN /\ a = "view"
                    /\ setup = (IF activation_cls # "None"
                                THEN <<Ev("warn", "view", "RuntimeWarning")>> ELSE <<>>)
                               \o << Ev("initialize", "view", "start"),
                                     Ev("call", "view", "func(request)") >>
               ELSE /\ a = ToString(r)
                    /\ setup = << Ev("construct", a, activation_cls),
                                  Ev("initialize", a, "start"),
                                  Ev("call", a, "func(request, activation)") >>

C10_Witness ==
    \E r \in Requests :
        /\ req[r].pc = "end"
        /\ req[r].act = "view"
        /\ req[r].log[1] = Ev("warn", "view", "RuntimeWarning")
        /\ req[r].log[2] = Ev("initialize", "view", "start")

====
